---- MODULE Spec2Model ----
(***************************************************************************)
(* ZakuZaku: the SQLite review store (src/src/database.py) and the quiz    *)
(* manager on top of it (src/src/quiz_manager.py).                         *)
(*                                                                         *)
(* Time is counted in ticks, TicksPerDay ticks to a day, so that instants  *)
(* less than one day apart can be told apart.  REAL columns are kept as    *)
(* scaled integers: ease_factor in thousandths, difficulty in tenths.      *)
(***************************************************************************)
EXTENDS Integers, Sequences, FiniteSets, Bags, TLC

\* ---- bounds of the model ----
MaxId == 2
MaxClock == 2
MaxAnswers == 1
MaxStreak == 7
MaxSrsIds == 1
MaxDueAnswers == 2
MaxSessionAnswers == 2
MaxShown == 2
MaxPresented == 21
MaxItems == 2
MaxCalls == 3
MaxBlocks == 2
OrderRows == 3
TicksPerDay == 2

\* ---- program constants ----
DefaultDifficulty == 25
DefaultInterval == 1
DefaultRepetitions == 0
DefaultEase == 2500
MinEase == 1300
EasePenalty == 200
FirstInterval == 1
SecondInterval == 6
DefaultLimit == 20
max_questions == 20
ReviewLimit == 1
RandomWindow == 100

Null == -1
NoFile == "None"

\* The quiz files on disk and the question ids and texts found in them.
Files == {"f0", "f1", "f2"}
QuestionIds == {"1", "2"}
Texts == {"t1"}
Ids == 1..MaxId

VARIABLES
    now,                \* datetime.now(), in ticks
    questions,          \* table questions: id -> row
    seq,                \* sqlite_sequence of questions (AUTOINCREMENT)
    srs_stats,          \* table srs_stats: question_id -> row
    user_answers,       \* table user_answers: a bag of (question_id, is_correct) rows
    applied,            \* number of committed _update_srs_stats UPDATEs
    current_quiz_file,  \* QuizManager.current_quiz_file
    current_questions,  \* QuizManager.current_questions
    session_stats,      \* QuizManager.session_stats
    review_result,      \* the rows get_questions_for_review returned last
    ui,                 \* TerminalUI.start_quiz: where it is and its locals
    parser,             \* QuizParser._parse_json: its input and its outcome
    verifier,           \* the answer verifier: its arguments and its verdict
    calls               \* record_answer calls in progress, one per session

vars == <<now, questions, seq, srs_stats, user_answers, applied,
          current_quiz_file, current_questions, session_stats,
          review_result, ui, parser, verifier, calls>>

dbVars == <<questions, seq, srs_stats, user_answers, applied>>
qmVars == <<current_quiz_file, current_questions, session_stats>>
extVars == <<review_result, ui, parser, verifier, calls>>

Max(a, b) == IF a >= b THEN a ELSE b
Range(p) == {p[k] : k \in 1..Len(p)}

\* QuizParser.parse_file(file_path), for the content the files have: f0 holds
\* no question, f1 holds two, f2 holds one.  A parsed Question is kept as
\* its id and its text.
parse_file(f) ==
    IF f = "f1" THEN <<[id |-> "1", question |-> "t1"], [id |-> "2", question |-> "t1"]>>
    ELSE IF f = "f2" THEN <<[id |-> "1", question |-> "t1"]>>
    ELSE <<>>

\* ---------------------------------------------------------------------
\* Database
\* ---------------------------------------------------------------------

\* SELECT id FROM questions WHERE quiz_file = ? AND question_id = ?
RowsOf(qs, f, qid) ==
    {i \in DOMAIN qs : qs[i].quiz_file = f /\ qs[i].question_id = qid}

get_question_db_id(qs, f, qid) ==
    IF RowsOf(qs, f, qid) = {} THEN 0 ELSE CHOOSE i \in RowsOf(qs, f, qid) : TRUE

\* INSERT OR REPLACE INTO questions: the row that conflicts on
\* UNIQUE(quiz_file, question_id) is deleted and the new row gets the next
\* AUTOINCREMENT id.
InsertOrReplaceQuestion(qs, newId, f, qid, text) ==
    [i \in (DOMAIN qs \ RowsOf(qs, f, qid)) \cup {newId} |->
        IF i = newId
        THEN [quiz_file |-> f, question_id |-> qid, question_text |-> text]
        ELSE qs[i]]

DefaultStats(t) ==
    [difficulty |-> DefaultDifficulty, interval_days |-> DefaultInterval,
     repetitions |-> DefaultRepetitions, ease_factor |-> DefaultEase,
     next_review |-> t, last_review |-> Null]

InsertOrIgnoreSrs_Skip(srs, id, t) == srs

\* INSERT OR IGNORE INTO srs_stats (question_id, next_review)
InsertOrIgnoreSrs(srs, id, t) ==
    IF id \in DOMAIN srs THEN srs
    ELSE [i \in DOMAIN srs \cup {id} |-> IF i = id THEN DefaultStats(t) ELSE srs[i]]

\* The state of the store after one add_question call, and the id it returns.
AddQuestionResult(db, f, qid, text, t) ==
    LET newId == db.seq + 1
    IN  [questions |-> InsertOrReplaceQuestion(db.questions, newId, f, qid, text),
         seq |-> newId,
         srs_stats |-> InsertOrIgnoreSrs(db.srs_stats, newId, t),
         ret |-> newId]

\* ease_factor + (0.1 - (3 - difficulty) * (0.08 + (3 - difficulty) * 0.02)),
\* in thousandths, difficulty being in tenths.
EaseBonus(difficulty) ==
    (1000 - (30 - difficulty) * (80 + (30 - difficulty) * 2)) \div 10

NewEase_NoFloor(row, is_correct) ==
    IF is_correct THEN row.ease_factor + EaseBonus(row.difficulty)
    ELSE row.ease_factor - EasePenalty

\* _update_srs_stats: the new ease_factor
NewEase(row, is_correct) ==
    IF is_correct THEN Max(MinEase, row.ease_factor + EaseBonus(row.difficulty))
    ELSE Max(MinEase, row.ease_factor - EasePenalty)

NewRepetitions_KeepOnWrong(row, is_correct) ==
    IF is_correct THEN row.repetitions + 1 ELSE row.repetitions

\* _update_srs_stats: the new repetitions
NewRepetitions(row, is_correct) ==
    IF is_correct THEN row.repetitions + 1 ELSE 0

NewInterval_SkipSecond(row, is_correct) ==
    IF is_correct
    THEN IF row.repetitions = 0 THEN FirstInterval
         ELSE (row.interval_days * row.ease_factor) \div 1000
    ELSE 1

NewInterval_EaseAfter(row, is_correct) ==
    IF is_correct
    THEN IF row.repetitions = 0 THEN FirstInterval
         ELSE IF row.repetitions = 1 THEN SecondInterval
         ELSE (row.interval_days * NewEase(row, is_correct)) \div 1000
    ELSE 1

\* _update_srs_stats: the new interval_days; int() truncates the product of
\* the interval and the ease factor read from the row.
NewInterval(row, is_correct) ==
    IF is_correct
    THEN IF row.repetitions = 0 THEN FirstInterval
         ELSE IF row.repetitions = 1 THEN SecondInterval
         ELSE (row.interval_days * row.ease_factor) \div 1000
    ELSE 1

NextReview_Ticks(t, interval_days) == t + interval_days

\* datetime.now() + timedelta(days=interval_days)
NextReview(t, interval_days) == t + interval_days * TicksPerDay

\* The row _update_srs_stats writes back for the row it read.
UpdatedStats_DueNow(row, is_correct, t) ==
    [difficulty |-> row.difficulty,
     interval_days |-> NewInterval(row, is_correct),
     repetitions |-> NewRepetitions(row, is_correct),
     ease_factor |-> NewEase(row, is_correct),
     next_review |-> t,
     last_review |-> t]

UpdatedStats(row, is_correct, t) ==
    [difficulty |-> row.difficulty,
     interval_days |-> NewInterval(row, is_correct),
     repetitions |-> NewRepetitions(row, is_correct),
     ease_factor |-> NewEase(row, is_correct),
     next_review |-> NextReview(t, NewInterval(row, is_correct)),
     last_review |-> t]

\* Database._update_srs_stats(question_id, is_correct): no row, no update.
update_srs_stats(srs, id, is_correct, t) ==
    IF id \notin DOMAIN srs THEN srs
    ELSE [srs EXCEPT ![id] = UpdatedStats(srs[id], is_correct, t)]

\* Where a sqlite3 error can strike inside record_answer: nowhere, before the
\* INSERT is committed, or after it, inside _update_srs_stats (whose own
\* connection then rolls back).
Failures == {"none", "insert", "update"}

\* The store after Database.record_answer(question_db_id, _, is_correct).
\* The INSERT is committed on its own connection before _update_srs_stats
\* opens a second one.
RecordAnswerResult(db, id, is_correct, fail, t) ==
    LET inserted == fail # "insert"
        updated == fail = "none" /\ id \in DOMAIN db.srs_stats
    IN  [user_answers |->
            IF inserted
            THEN db.user_answers (+) SetToBag({[question_id |-> id, is_correct |-> is_correct]})
            ELSE db.user_answers,
         srs_stats |->
            IF updated THEN update_srs_stats(db.srs_stats, id, is_correct, t)
            ELSE db.srs_stats,
         applied |-> IF updated THEN db.applied + 1 ELSE db.applied,
         updated |-> updated,
         raised |-> fail # "none"]

\* WHERE (s.next_review IS NULL OR s.next_review <= ?) over
\* questions LEFT JOIN srs_stats, with the optional quiz_file filter.
IsDue_Strict(qs, srs, id, t) ==
    \/ id \notin DOMAIN srs
    \/ srs[id].next_review = Null
    \/ srs[id].next_review < t

IsDue(qs, srs, id, t) ==
    \/ id \notin DOMAIN srs
    \/ srs[id].next_review = Null
    \/ srs[id].next_review <= t

DueSet_NoFilter(qs, srs, f, t) ==
    {i \in DOMAIN qs : IsDue(qs, srs, i, t)}

\* The candidate set of get_questions_for_review, before ORDER BY and LIMIT.
DueSet(qs, srs, f, t) ==
    {i \in DOMAIN qs : IsDue(qs, srs, i, t) /\ (f = NoFile \/ qs[i].quiz_file = f)}

\* ORDER BY s.next_review ASC, s.difficulty DESC over the LEFT JOIN: a
\* question without a srs_stats row has NULL in both, and NULL sorts lowest.
NextReviewOf(srs, id) == IF id \in DOMAIN srs THEN srs[id].next_review ELSE Null
DifficultyOf(srs, id) == IF id \in DOMAIN srs THEN srs[id].difficulty ELSE Null

OrderedBefore_DifficultyAsc(srs, a, b) ==
    \/ NextReviewOf(srs, a) < NextReviewOf(srs, b)
    \/ /\ NextReviewOf(srs, a) = NextReviewOf(srs, b)
       /\ DifficultyOf(srs, a) <= DifficultyOf(srs, b)

\* Row a may stand before row b in the result.
OrderedBefore(srs, a, b) ==
    \/ NextReviewOf(srs, a) < NextReviewOf(srs, b)
    \/ /\ NextReviewOf(srs, a) = NextReviewOf(srs, b)
       /\ DifficultyOf(srs, a) >= DifficultyOf(srs, b)

\* The orders SQLite may give the rows of S: sorted by the two keys, rows
\* that tie on both in any order.
RECURSIVE SortedSeqs(_, _)
SortedSeqs(srs, S) ==
    IF S = {} THEN {<<>>}
    ELSE UNION {{<<m>> \o p : p \in SortedSeqs(srs, S \ {m})} :
                m \in {a \in S : \A b \in S : OrderedBefore(srs, a, b)}}

\* LIMIT ?
Limit(p, limit) == SubSeq(p, 1, IF Len(p) < limit THEN Len(p) ELSE limit)

\* Database.get_questions_for_review(quiz_file, limit): the ids of the rows
\* it can return, in order.
ReviewResults(qs, srs, f, limit, t) ==
    {Limit(p, limit) : p \in SortedSeqs(srs, DueSet(qs, srs, f, t))}

\* Database.get_statistics(quiz_file): the counts of its two queries, both
\* over a JOIN with questions, with the optional quiz_file filter.
get_statistics(qs, answers, srs, f) ==
    LET InFile(id) == id \in DOMAIN qs /\ (f = NoFile \/ qs[id].quiz_file = f)
        joined == [r \in {x \in BagToSet(answers) : InFile(x.question_id)} |-> answers[r]]
        correct == [r \in {x \in DOMAIN joined : x.is_correct} |-> joined[r]]
        stats == {id \in DOMAIN srs : InFile(id)}
    IN  [total_questions |-> Cardinality(stats),
         total_answers |-> BagCardinality(joined),
         correct_answers |-> BagCardinality(correct),
         learned_questions |-> Cardinality({id \in stats : srs[id].repetitions > 0})]

\* No query, no session, no parse, no call in progress.
NoResult == [quiz_file |-> NoFile, limit |-> 0, rows |-> <<>>]
NoSession ==
    [pc |-> "menu", mode |-> "", questions_count |-> 0, question_data |-> 0,
     shown |-> 0, skipped |-> 0, ended |-> ""]
NoParse == [data |-> <<>>, outcome |-> "", questions |-> <<>>]
NoCalls == <<>>
NoVerify == [question_type |-> "", user_answer |-> <<>>, correct_answer |-> <<>>,
             options |-> <<>>, correct_answers |-> <<>>, outcome |-> "",
             is_correct |-> FALSE]

\* load_quiz's loop over the parsed questions, add_question for each.
RECURSIVE AddAll(_, _, _, _)
AddAll(db, f, parsed, t) ==
    IF parsed = <<>> THEN db
    ELSE LET q == Head(parsed)
             r == AddQuestionResult(db, f, q.id, q.question, t)
         IN  AddAll([questions |-> r.questions, seq |-> r.seq,
                     srs_stats |-> r.srs_stats], f, Tail(parsed), t)

Init ==
    /\ now = 0
    /\ questions = <<>>
    /\ seq = 0
    /\ srs_stats = <<>>
    /\ user_answers = EmptyBag
    /\ applied = 0
    /\ current_quiz_file = NoFile
    /\ current_questions = <<>>
    /\ session_stats = [questions_asked |-> 0, correct_answers |-> 0]
    /\ review_result = NoResult
    /\ ui = NoSession
    /\ parser = NoParse
    /\ verifier = NoVerify
    /\ calls = NoCalls

\* Database.add_question(quiz_file, question_id, question_text, ...)
add_question(f, qid, text) ==
    /\ LET r == AddQuestionResult([questions |-> questions, seq |-> seq,
                                   srs_stats |-> srs_stats], f, qid, text, now)
       IN  /\ questions' = r.questions
           /\ seq' = r.seq
           /\ srs_stats' = r.srs_stats
    /\ UNCHANGED <<now, user_answers, applied, qmVars, extVars>>

\* QuizManager.check_answer(question_db_id, ...): the verdict of the verifier
\* is is_correct; record_answer follows; the session counters are only
\* reached when record_answer did not raise.
CheckAnswer(id, is_correct, fail) ==
    /\ LET r == RecordAnswerResult([user_answers |-> user_answers,
                                    srs_stats |-> srs_stats, applied |-> applied],
                                   id, is_correct, fail, now)
       IN  /\ user_answers' = r.user_answers
           /\ srs_stats' = r.srs_stats
           /\ applied' = r.applied
           /\ session_stats' =
                IF r.raised THEN session_stats
                ELSE [questions_asked |-> session_stats.questions_asked + 1,
                      correct_answers |-> session_stats.correct_answers
                                          + (IF is_correct THEN 1 ELSE 0)]
    /\ UNCHANGED <<now, questions, seq, current_quiz_file, current_questions>>

check_answer(id, is_correct, fail) ==
    /\ CheckAnswer(id, is_correct, fail)
    /\ UNCHANGED extVars

\* QuizManager.load_quiz(file_path): parsed is what parse_file returns
\* (raised = it raised); done is the number of add_question calls that
\* succeed before a store failure, Len(parsed) when there is none.
load_quiz(f, raised, parsed, done) ==
    /\ done \in 0..Len(parsed)
    /\ IF raised \/ parsed = <<>>
       THEN /\ done = 0
            /\ UNCHANGED <<questions, seq, srs_stats, current_quiz_file, current_questions>>
       ELSE LET db == AddAll([questions |-> questions, seq |-> seq,
                              srs_stats |-> srs_stats], f, SubSeq(parsed, 1, done), now)
            IN  /\ current_quiz_file' = f
                /\ current_questions' = parsed
                /\ questions' = db.questions
                /\ seq' = db.seq
                /\ srs_stats' = db.srs_stats
    /\ UNCHANGED <<now, user_answers, applied, session_stats, extVars>>

\* The wall clock advances.
Tick ==
    /\ now < MaxClock
    /\ now' = now + 1
    /\ UNCHANGED <<dbVars, qmVars, extVars>>

\* ---------------------------------------------------------------------
\* Spec: the store and the manager, any file, any question id
\* ---------------------------------------------------------------------
Register ==
    \E f \in Files \ {"f0"}, qid \in QuestionIds, text \in Texts :
        /\ seq < MaxId
        /\ add_question(f, qid, text)

Answer ==
    \E id \in Ids, is_correct \in BOOLEAN, fail \in Failures :
        /\ BagCardinality(user_answers) < MaxAnswers
        /\ check_answer(id, is_correct, fail)

Load ==
    \E f \in Files, raised \in BOOLEAN : \E done \in 0..Len(parse_file(f)) :
        /\ seq + done <= MaxId
        /\ load_quiz(f, raised, parse_file(f), done)

Next == Register \/ Answer \/ Load \/ Tick

Spec == Init /\ [][Next]_vars

\* ---------------------------------------------------------------------
\* SpecSrs: the scheduler followed over long runs of answers to few rows,
\* all given at one instant
\* ---------------------------------------------------------------------
SrsRegister ==
    /\ seq < MaxSrsIds
    /\ add_question("f1", "1", "t1")

SrsAnswer ==
    \E id \in 1..MaxSrsIds, is_correct \in BOOLEAN, fail \in Failures :
        /\ BagCardinality(user_answers) < MaxStreak
        /\ check_answer(id, is_correct, fail)

NextSrs == SrsRegister \/ SrsAnswer

SpecSrs == Init /\ [][NextSrs]_vars

\* ---------------------------------------------------------------------
\* SpecDue: few answers to few rows while the clock runs
\* ---------------------------------------------------------------------
DueAnswer ==
    \E id \in 1..MaxSrsIds, is_correct \in BOOLEAN, fail \in Failures :
        /\ BagCardinality(user_answers) < MaxDueAnswers
        /\ check_answer(id, is_correct, fail)

NextDue == SrsRegister \/ DueAnswer \/ Tick

SpecDue == Init /\ [][NextDue]_vars

\* ---------------------------------------------------------------------
\* SpecReview: one question per source, answered while the clock runs
\* ---------------------------------------------------------------------
RevRegister ==
    \E f \in Files \ {"f0"} :
        /\ seq < MaxId
        /\ add_question(f, "1", "t1")

RevAnswer ==
    \E id \in Ids, is_correct \in BOOLEAN :
        /\ BagCardinality(user_answers) < MaxAnswers
        /\ check_answer(id, is_correct, "none")

NextReviewSpec == RevRegister \/ RevAnswer \/ Tick

SpecReview == Init /\ [][NextReviewSpec]_vars

\* ---------------------------------------------------------------------
\* SpecOrder: get_questions_for_review over stores whose srs_stats rows hold
\* any difficulty and one of two next_review times.  (The program itself
\* never writes a difficulty other than the default.)
\* ---------------------------------------------------------------------
Difficulties == {10, 20, 30}

\* The identities of the rows of the store, by id.
OrderIdentity(id) ==
    [quiz_file |-> IF id % 3 = 0 THEN "f2" ELSE "f1",
     question_id |-> IF id % 3 = 2 THEN "2" ELSE "1",
     question_text |-> "t1"]

InitOrder ==
    /\ now \in 0..1
    /\ questions = [id \in 1..OrderRows |-> OrderIdentity(id)]
    /\ seq = OrderRows
    /\ srs_stats \in [1..OrderRows ->
            {[DefaultStats(t) EXCEPT !.difficulty = d] : t \in 0..1, d \in Difficulties}]
    /\ user_answers = EmptyBag
    /\ applied = 0
    /\ current_quiz_file = NoFile
    /\ current_questions = <<>>
    /\ session_stats = [questions_asked |-> 0, correct_answers |-> 0]
    /\ review_result = NoResult
    /\ ui = NoSession
    /\ parser = NoParse
    /\ verifier = NoVerify
    /\ calls = NoCalls

\* Database.get_questions_for_review(quiz_file, limit)
get_questions_for_review(f, limit) ==
    /\ \E r \in ReviewResults(questions, srs_stats, f, limit, now) :
          review_result' = [quiz_file |-> f, limit |-> limit, rows |-> r]
    /\ UNCHANGED <<now, dbVars, qmVars, ui, parser, verifier, calls>>

OrderQuery ==
    \E f \in {NoFile, "f1"}, limit \in (1..OrderRows) \cup {DefaultLimit} :
        get_questions_for_review(f, limit)

NextOrder == OrderQuery

SpecOrder == InitOrder /\ [][NextOrder]_vars

\* ---------------------------------------------------------------------
\* The session: TerminalUI.start_quiz on top of the manager
\* ---------------------------------------------------------------------

\* What the learner may type at the prompt.  "pomi\\u0144" stands for the
\* Polish skip token, whose last letter is U+0144, "POMI\\u0143" for it in
\* upper case.
Submissions ==
    {"quit", "QUIT", " Exit ", "Koniec", "skip", "SKIP", " Skip",
     "POMI\\u0143", "a", "skip it"}

QuitTokens == {"quit", "exit", "koniec"}
SkipTokens == {"skip", "pomi\\u0144"}

\* str.strip() and str.lower() on the submissions above.
Strip(s) ==
    CASE s = " Exit " -> "Exit"
      [] s = " Skip" -> "Skip"
      [] OTHER -> s

Lower_Identity(s) == s

Lower(s) ==
    CASE s = "QUIT" -> "quit"
      [] s = "Exit" -> "exit"
      [] s = "Koniec" -> "koniec"
      [] s = "SKIP" -> "skip"
      [] s = "Skip" -> "skip"
      [] s = "POMI\\u0143" -> "pomi\\u0144"
      [] OTHER -> s

get_next_question_AnyDue(qs, srs, f, mode, t) ==
    IF mode \in {"review", "random"}
    THEN UNION {IF r = <<>> THEN {0} ELSE Range(r) :
                r \in ReviewResults(qs, srs, f, RandomWindow, t)}
    ELSE {0}

\* QuizManager.get_next_question(mode): the db ids it can return, 0 for None.
\* Review mode takes the first row of the query limited to one row, random
\* mode any row (random.choice) of the query limited to a hundred.
get_next_question(qs, srs, f, mode, t) ==
    IF mode = "review"
    THEN {IF r = <<>> THEN 0 ELSE r[1] : r \in ReviewResults(qs, srs, f, ReviewLimit, t)}
    ELSE IF mode = "random"
    THEN UNION {IF r = <<>> THEN {0} ELSE Range(r) :
                r \in ReviewResults(qs, srs, f, RandomWindow, t)}
    ELSE {0}

\* QuizManager.has_questions_for_review()
has_questions_for_review ==
    \E r \in ReviewResults(questions, srs_stats, current_quiz_file, ReviewLimit, now) :
        Len(r) > 0

\* TerminalUI.start_quiz(mode), up to the loop: without a selected quiz, or
\* in review mode with nothing due, it returns to the menu; otherwise
\* reset_session_stats and the loop starts with questions_count = 0.
start_quiz(mode) ==
    /\ ui.pc = "menu"
    /\ IF current_quiz_file = NoFile \/ (mode = "review" /\ ~has_questions_for_review)
       THEN UNCHANGED <<ui, session_stats>>
       ELSE /\ session_stats' = [questions_asked |-> 0, correct_answers |-> 0]
            /\ ui' = [NoSession EXCEPT !.pc = "loop", !.mode = mode]
    /\ UNCHANGED <<now, dbVars, current_quiz_file, current_questions,
                   review_result, parser, verifier, calls>>

\* The head of the loop of start_quiz, up to the prompt: the loop ends when
\* questions_count has reached max_questions or get_next_question returns
\* None; otherwise the question is shown and input() waits.
next_question ==
    /\ ui.pc = "loop"
    /\ IF ui.questions_count >= max_questions
       THEN ui' = [ui EXCEPT !.pc = "menu", !.ended = "limit", !.skipped = 0]
       ELSE \E q \in get_next_question(questions, srs_stats, current_quiz_file,
                                        ui.mode, now) :
               IF q = 0
               THEN ui' = [ui EXCEPT !.pc = "menu", !.ended = "none", !.skipped = 0]
               ELSE ui' = [ui EXCEPT !.pc = "prompt", !.question_data = q,
                                     !.shown = @ + 1, !.skipped = 0]
    /\ UNCHANGED <<now, dbVars, qmVars, review_result, parser, verifier, calls>>

\* The rest of the loop body, from the submission on: a quit token breaks,
\* a skip token continues, anything else goes to check_answer and counts as
\* a question; a store failure there propagates and ends the program.
submit_answer(sub, is_correct, fail) ==
    /\ ui.pc = "prompt"
    /\ IF Lower(Strip(sub)) \in QuitTokens
       THEN /\ ui' = [ui EXCEPT !.pc = "menu", !.ended = "quit"]
            /\ UNCHANGED <<now, dbVars, qmVars>>
       ELSE IF Lower(Strip(sub)) \in SkipTokens
       THEN /\ ui' = [ui EXCEPT !.pc = "loop", !.skipped = ui.question_data]
            /\ UNCHANGED <<now, dbVars, qmVars>>
       ELSE /\ CheckAnswer(ui.question_data, is_correct, fail)
            /\ ui' = IF fail # "none"
                     THEN [ui EXCEPT !.pc = "exit", !.ended = "error"]
                     ELSE [ui EXCEPT !.pc = "loop",
                                     !.questions_count = @ + 1]
    /\ UNCHANGED <<review_result, parser, verifier, calls>>

\* ---------------------------------------------------------------------
\* SpecSession: quizzes are selected at the menu and sessions run
\* ---------------------------------------------------------------------
SessLoad ==
    \E f \in Files, raised \in BOOLEAN : \E done \in 0..Len(parse_file(f)) :
        /\ ui.pc = "menu"
        /\ seq + done <= MaxId
        /\ load_quiz(f, raised, parse_file(f), done)

SessStart == \E mode \in {"review", "random"} : start_quiz(mode)

SessNext ==
    /\ ui.shown < MaxShown
    /\ next_question

SessSubmit ==
    \E sub \in Submissions, is_correct \in BOOLEAN, fail \in Failures :
        /\ BagCardinality(user_answers) < MaxAnswers
        /\ submit_answer(sub, is_correct, fail)

NextSession == SessLoad \/ SessStart \/ SessNext \/ SessSubmit \/ Tick

SpecSession == Init /\ [][NextSession]_vars

\* ---------------------------------------------------------------------
\* SpecSkip: one quiz, sessions in which the learner skips, answers or quits
\* ---------------------------------------------------------------------
SkipLoad ==
    \E f \in Files \ {"f0"} :
        /\ ui.pc = "menu"
        /\ current_quiz_file = NoFile
        /\ load_quiz(f, FALSE, parse_file(f), Len(parse_file(f)))

SkipStart ==
    /\ ui.shown = 0
    /\ start_quiz("review")

SkipNext ==
    /\ ui.shown < MaxPresented
    /\ next_question

SkipSubmit ==
    \E sub \in Submissions, is_correct \in BOOLEAN :
        /\ BagCardinality(user_answers) < MaxSessionAnswers
        /\ submit_answer(sub, is_correct, "none")

NextSkip == SkipLoad \/ SkipStart \/ SkipNext \/ SkipSubmit

SpecSkip == Init /\ [][NextSkip]_vars

\* ---------------------------------------------------------------------
\* SpecParse: QuizParser._parse_json on the value json.load returns
\* ---------------------------------------------------------------------

\* JSON scalars, by kind and text.
Str(x) == [kind |-> "string", text |-> x]
Scalars ==
    {Str("x"), [kind |-> "number", text |-> "7"],
     [kind |-> "true", text |-> "true"], [kind |-> "null", text |-> "null"]}

\* Python's str() of a JSON scalar.
PyStr(v) ==
    CASE v.kind = "true" -> "True"
      [] v.kind = "null" -> "None"
      [] OTHER -> v.text

\* A key a question object does not have.
Absent == "<absent>"

\* The elements of a list: question objects, with or without an id, and
\* strings; the entries of a flat mapping have a key and a scalar value.
ObjectItems ==
    {[kind |-> "dict", id |-> i, question |-> q, answer |-> Str("x")] :
        i \in {Absent, "a"}, q \in {"q1", "q2"}}
StringItem == [kind |-> "string", id |-> Absent, question |-> "", answer |-> Str("s")]
Entries ==
    {[kind |-> "entry", id |-> Absent, question |-> k, answer |-> v] :
        k \in {"q1", "q2"}, v \in {Str("x"), [kind |-> "true", text |-> "true"]}}

SeqsUpTo(S, n) == UNION {[1..k -> S] : k \in 0..n}

\* What json.load can give: a list, an object with a "questions" list, a
\* flat object (its keys distinct), a scalar, or a decode error.
JsonValues ==
    {[kind |-> k, text |-> "", items |-> p] :
        k \in {"list", "questions"}, p \in SeqsUpTo(ObjectItems \cup {StringItem}, MaxItems)}
    \cup {[kind |-> "mapping", text |-> "", items |-> p] :
        p \in {e \in SeqsUpTo(Entries, MaxItems) :
                 \A i, j \in 1..Len(e) : i # j => e[i].question # e[j].question}}
    \cup {[kind |-> v.kind, text |-> v.text, items |-> <<>>] : v \in Scalars}
    \cup {[kind |-> "invalid", text |-> "", items |-> <<>>]}

\* QuizParser._create_question_from_dict(item, default_id)
create_question_from_dict(item, default_id) ==
    [id |-> IF item.id = Absent THEN default_id ELSE item.id,
     question |-> item.question, answer |-> item.answer]

\* The list format: items that are not objects are passed over, the default
\* id is the index in the list.
RECURSIVE ListQuestions(_, _)
ListQuestions(items, i) ==
    IF items = <<>> THEN <<>>
    ELSE (IF Head(items).kind = "dict"
          THEN <<create_question_from_dict(Head(items), ToString(i))>>
          ELSE <<>>) \o ListQuestions(Tail(items), i + 1)

Returned(qs) == [outcome |-> "returned", questions |-> qs]
Raised == [outcome |-> "raised", questions |-> <<>>]

\* QuizParser._parse_json: json.load raises on a decode error; item.get
\* raises on an element of "questions" that is not an object; a top-level
\* value that is neither a list nor an object falls through both branches.
parse_json(data) ==
    CASE data.kind = "invalid" -> Raised
      [] data.kind = "list" -> Returned(ListQuestions(data.items, 0))
      [] data.kind = "questions" ->
            IF \E k \in 1..Len(data.items) : data.items[k].kind # "dict"
            THEN Raised
            ELSE Returned([k \in 1..Len(data.items) |->
                    create_question_from_dict(data.items[k], ToString(k - 1))])
      [] data.kind = "mapping" ->
            Returned([k \in 1..Len(data.items) |->
                [id |-> data.items[k].question,
                 question |-> data.items[k].question,
                 answer |-> Str(PyStr(data.items[k].answer))]])
      [] OTHER -> Returned(<<>>)

InitParse ==
    /\ now = 0
    /\ questions = <<>>
    /\ seq = 0
    /\ srs_stats = <<>>
    /\ user_answers = EmptyBag
    /\ applied = 0
    /\ current_quiz_file = NoFile
    /\ current_questions = <<>>
    /\ session_stats = [questions_asked |-> 0, correct_answers |-> 0]
    /\ review_result = NoResult
    /\ ui = NoSession
    /\ parser \in {[data |-> d, outcome |-> "", questions |-> <<>>] : d \in JsonValues}
    /\ verifier = NoVerify
    /\ calls = NoCalls

ParseJson ==
    /\ parser.outcome = ""
    /\ parser' = [data |-> parser.data,
                  outcome |-> parse_json(parser.data).outcome,
                  questions |-> parse_json(parser.data).questions]
    /\ UNCHANGED <<now, dbVars, qmVars, review_result, ui, verifier, calls>>

NextParse == ParseJson

SpecParse == InitParse /\ [][NextParse]_vars

\* ---------------------------------------------------------------------
\* SpecConc: two sessions on one store file, record_answer statement by
\* statement
\* ---------------------------------------------------------------------
Sessions == {"s1", "s2"}

Idle == [pc |-> "idle", question_id |-> 0, is_correct |-> FALSE, result |-> <<>>]

\* SELECT difficulty, interval_days, repetitions, ease_factor
Selected(row) ==
    [difficulty |-> row.difficulty, interval_days |-> row.interval_days,
     repetitions |-> row.repetitions, ease_factor |-> row.ease_factor]

InitConc ==
    /\ now = 0
    /\ questions = <<>>
    /\ seq = 0
    /\ srs_stats = <<>>
    /\ user_answers = EmptyBag
    /\ applied = 0
    /\ current_quiz_file = NoFile
    /\ current_questions = <<>>
    /\ session_stats = [questions_asked |-> 0, correct_answers |-> 0]
    /\ review_result = NoResult
    /\ ui = NoSession
    /\ parser = NoParse
    /\ verifier = NoVerify
    /\ calls = [s \in Sessions |-> Idle]

\* Every session is between two calls.
Quiescent == \A s \in Sessions : calls[s].pc = "idle"

\* record_answer, first connection: the INSERT and its commit.
record_answer_insert(s, id, is_correct) ==
    /\ calls[s].pc = "idle"
    /\ user_answers' = user_answers
            (+) SetToBag({[question_id |-> id, is_correct |-> is_correct]})
    /\ calls' = [calls EXCEPT ![s] = [pc |-> "select", question_id |-> id,
                                      is_correct |-> is_correct, result |-> <<>>]]
    /\ UNCHANGED <<now, questions, seq, srs_stats, applied, qmVars,
                   review_result, ui, parser, verifier>>

\* _update_srs_stats, second connection: the SELECT and fetchone; without a
\* row the call returns.
update_srs_stats_select(s) ==
    /\ calls[s].pc = "select"
    /\ calls' = [calls EXCEPT ![s] =
            IF calls[s].question_id \in DOMAIN srs_stats
            THEN [@ EXCEPT !.pc = "update",
                           !.result = Selected(srs_stats[calls[s].question_id])]
            ELSE Idle]
    /\ UNCHANGED <<now, dbVars, qmVars, review_result, ui, parser, verifier>>

\* _update_srs_stats: the UPDATE, computed from the row read before, and the
\* commit.
update_srs_stats_update(s) ==
    /\ calls[s].pc = "update"
    /\ srs_stats' =
            IF calls[s].question_id \in DOMAIN srs_stats
            THEN [srs_stats EXCEPT ![calls[s].question_id] =
                    UpdatedStats(calls[s].result, calls[s].is_correct, now)]
            ELSE srs_stats
    /\ applied' = applied + 1
    /\ calls' = [calls EXCEPT ![s] = Idle]
    /\ UNCHANGED <<now, questions, seq, user_answers, qmVars,
                   review_result, ui, parser, verifier>>

ConcRegister ==
    /\ seq < MaxSrsIds
    /\ Quiescent
    /\ add_question("f1", "1", "t1")

ConcInsert ==
    \E s \in Sessions, id \in 1..MaxSrsIds, is_correct \in BOOLEAN :
        /\ BagCardinality(user_answers) < MaxCalls
        /\ record_answer_insert(s, id, is_correct)

ConcSelect == \E s \in Sessions : update_srs_stats_select(s)

ConcUpdate == \E s \in Sessions : update_srs_stats_update(s)

NextConc == ConcRegister \/ ConcInsert \/ ConcSelect \/ ConcUpdate

SpecConc == InitConc /\ [][NextConc]_vars

\* ---------------------------------------------------------------------
\* SpecMarkdown: QuizParser._parse_markdown on the lines of a file
\* ---------------------------------------------------------------------

\* A file is a sequence of lines.  A line is "Q: text", a labelled option
\* "A) text" .. "D) text", "Answer: letters", or blank.  The text of a
\* question line may end in a question mark; the text of an option is a
\* word; the letters of an answer line are upper-case
\* letters A-D separated by ", ".  No line carries "A:", "##" or "**", so
\* the first three text patterns find nothing in these files.
Letters == <<"A", "B", "C", "D">>
LetterSet == {"A", "B", "C", "D"}

QLine(qmark) == [kind |-> "Q", text |-> "x", qmark |-> qmark, letters |-> <<>>]
OptionLine(l, text) == [kind |-> l, text |-> text, qmark |-> FALSE, letters |-> <<>>]
AnswerLine(ls) == [kind |-> "Answer", text |-> "", qmark |-> FALSE, letters |-> ls]
BlankLine == [kind |-> "blank", text |-> "", qmark |-> FALSE, letters |-> <<>>]

RECURSIVE OptionLines(_, _)
OptionLines(k, present) ==
    IF k > Len(Letters) THEN <<>>
    ELSE (IF Letters[k] \in present THEN <<OptionLine(Letters[k], "w")>> ELSE <<>>)
         \o OptionLines(k + 1, present)

Block(qmark, present, ls) ==
    <<QLine(qmark)>> \o OptionLines(1, present) \o <<AnswerLine(ls)>>

AnswerLetters == {<<"A">>, <<"B">>, <<"D">>, <<"A", "C">>}

\* One block with three or four option lines.
Blocks ==
    {Block(qmark, present, ls) :
        qmark \in BOOLEAN,
        present \in {P \in SUBSET LetterSet : Cardinality(P) >= 3},
        ls \in AnswerLetters}

FullBlock == Block(TRUE, LetterSet, <<"A">>)

\* Files of up to MaxBlocks blocks separated by a blank line; after the
\* first block the blocks are complete ones.
RECURSIVE FilesFrom(_, _)
FilesFrom(S, n) ==
    IF n <= 1 THEN S
    ELSE S \cup FilesFrom({c \o <<BlankLine>> \o FullBlock : c \in S}, n - 1)

MarkdownFiles == FilesFrom(Blocks, MaxBlocks)

\* The first line of the given kind after line i, 0 when there is none: the
\* lazy (.+?) groups of abcd_pattern run, across line ends (re.DOTALL), to
\* the nearest place where the rest of the pattern matches.
FirstAfter(content, i, kind) ==
    IF \E j \in (i + 1)..Len(content) : content[j].kind = kind
    THEN CHOOSE j \in (i + 1)..Len(content) :
            /\ content[j].kind = kind
            /\ \A k \in (i + 1)..(j - 1) : content[k].kind # kind
    ELSE 0

\* The lines abcd_pattern matches from the first "Q:" after line i on:
\* Q, A, B, C, D and Answer lines in this order, each the nearest one.
AbcdMatch(content, i) ==
    LET q == FirstAfter(content, i, "Q")
        a == IF q = 0 THEN 0 ELSE FirstAfter(content, q, "A")
        b == IF a = 0 THEN 0 ELSE FirstAfter(content, a, "B")
        c == IF b = 0 THEN 0 ELSE FirstAfter(content, b, "C")
        d == IF c = 0 THEN 0 ELSE FirstAfter(content, c, "D")
        e == IF d = 0 THEN 0 ELSE FirstAfter(content, d, "Answer")
    IN  [found |-> e # 0, q |-> q, a |-> a, b |-> b, c |-> c, d |-> d, answer |-> e]

\* "if opt_a and opt_a.strip()": a captured group is dropped when nothing
\* but white space is in it.
StripsToNothing(group) == \A k \in 1..Len(group) : group[k].kind = "blank"

\* options and option_map of one match: the groups that do not strip to
\* nothing, in the order A, B, C, D.
OptionGroups(content, m) ==
    <<[letter |-> "A", group |-> SubSeq(content, m.a, m.b - 1)],
      [letter |-> "B", group |-> SubSeq(content, m.b, m.c - 1)],
      [letter |-> "C", group |-> SubSeq(content, m.c, m.d - 1)],
      [letter |-> "D", group |-> SubSeq(content, m.d, m.answer - 1)]>>

PresentOptions(content, m) ==
    LET NotEmpty(o) == ~StripsToNothing(o.group)
    IN  SelectSeq(OptionGroups(content, m), NotEmpty)

OptionOf(opts, letter) ==
    (CHOOSE o \in Range(opts) : o.letter = letter).group

\* The Question of one abcd match, or none ("continue") when it has no option
\* or no answer letter with an option.
ChoiceQuestion(content, m, question_id) ==
    LET opts == PresentOptions(content, m)
        InMap(l) == \E o \in Range(opts) : o.letter = l
        correct_letters == SelectSeq(content[m.answer].letters, InMap)
        correct_answers == [k \in 1..Len(correct_letters) |->
                                OptionOf(opts, correct_letters[k])]
    IN  IF opts = <<>> \/ correct_letters = <<>> THEN <<>>
        ELSE <<[id |-> ToString(question_id),
                question |-> SubSeq(content, m.q, m.a - 1),
                answer |-> correct_answers,
                options |-> [k \in 1..Len(opts) |-> opts[k].group],
                question_type |-> IF Len(correct_answers) = 1
                                  THEN "single_choice" ELSE "multiple_choice",
                correct_answers |-> correct_answers]>>

\* re.findall(abcd_pattern, content) and the loop over its matches, from
\* line i on.
RECURSIVE AbcdQuestions(_, _, _)
AbcdQuestions(content, i, question_id) ==
    LET m == AbcdMatch(content, i)
    IN  IF ~m.found THEN <<>>
        ELSE LET q == ChoiceQuestion(content, m, question_id)
             IN  q \o AbcdQuestions(content, m.answer, question_id + Len(q))

TextQuestion(id, question, answer) ==
    [id |-> id, question |-> question, answer |-> answer, options |-> <<>>,
     question_type |-> "text", correct_answers |-> <<>>]

\* The fourth text pattern, (.+\?)\n(.+?)(?=\n.+\?|\n\n|\Z): the greedy group
\* runs from the start of the file to the last line that ends in a question
\* mark and has a line after it, the lazy one from there to the next blank
\* line or the end.
QuestionMarkQuestions(content) ==
    LET marks == {j \in 1..(Len(content) - 1) : content[j].qmark}
    IN  IF marks = {} THEN <<>>
        ELSE LET j == CHOOSE x \in marks : \A y \in marks : y <= x
                 stop == FirstAfter(content, j, "blank")
                 last == IF stop = 0 THEN Len(content) ELSE stop - 1
             IN  <<TextQuestion("0", SubSeq(content, 1, j),
                                SubSeq(content, j + 1, last))>>

\* The last resort: the lines in pairs, question then answer.
LinePairs(content) ==
    [k \in 1..(Len(content) \div 2) |->
        TextQuestion(ToString(k - 1), <<content[2 * k - 1]>>, <<content[2 * k]>>)]

\* QuizParser._parse_markdown
parse_markdown(content) ==
    LET abcd == AbcdQuestions(content, 0, 0)
        text == QuestionMarkQuestions(content)
    IN  IF abcd # <<>> THEN abcd
        ELSE IF text # <<>> THEN text
        ELSE LinePairs(content)

InitMarkdown ==
    /\ now = 0
    /\ questions = <<>>
    /\ seq = 0
    /\ srs_stats = <<>>
    /\ user_answers = EmptyBag
    /\ applied = 0
    /\ current_quiz_file = NoFile
    /\ current_questions = <<>>
    /\ session_stats = [questions_asked |-> 0, correct_answers |-> 0]
    /\ review_result = NoResult
    /\ ui = NoSession
    /\ parser \in {[data |-> d, outcome |-> "", questions |-> <<>>] : d \in MarkdownFiles}
    /\ verifier = NoVerify
    /\ calls = NoCalls

ParseMarkdown ==
    /\ parser.outcome = ""
    /\ parser' = [data |-> parser.data, outcome |-> "returned",
                  questions |-> parse_markdown(parser.data)]
    /\ UNCHANGED <<now, dbVars, qmVars, review_result, ui, verifier, calls>>

NextMarkdown == ParseMarkdown

SpecMarkdown == InitMarkdown /\ [][NextMarkdown]_vars

\* ---------------------------------------------------------------------
\* SpecVerify: the answer verifier of QuizManager on texts
\* ---------------------------------------------------------------------

\* A text is a sequence of characters.  White space is the space and the
\* tab (a line read by input() holds no line end).
WhiteSpace == {" ", "\t"}

\* str.lower() and str.upper() on the characters used here.
lower_char(c) ==
    CASE c = "A" -> "a" [] c = "B" -> "b" [] c = "C" -> "c" [] c = "D" -> "d"
      [] c = "P" -> "p" [] c = "Q" -> "q" [] c = "R" -> "r"
      [] OTHER -> c

upper_char(c) ==
    CASE c = "a" -> "A" [] c = "b" -> "B" [] c = "c" -> "C" [] c = "d" -> "D"
      [] c = "e" -> "E" [] c = "p" -> "P" [] c = "q" -> "Q" [] c = "r" -> "R"
      [] OTHER -> c

lower(t) == [k \in 1..Len(t) |-> lower_char(t[k])]

RECURSIVE lstrip(_)
lstrip(t) == IF t # <<>> /\ Head(t) \in WhiteSpace THEN lstrip(Tail(t)) ELSE t

RECURSIVE rstrip(_)
rstrip(t) ==
    IF t # <<>> /\ t[Len(t)] \in WhiteSpace THEN rstrip(SubSeq(t, 1, Len(t) - 1)) ELSE t

strip(t) == rstrip(lstrip(t))

\* The place of the first character of t that is in S, Len(t) + 1 if none.
Find(t, S) ==
    IF \E k \in 1..Len(t) : t[k] \in S
    THEN CHOOSE k \in 1..Len(t) : t[k] \in S /\ \A j \in 1..(k - 1) : t[j] \notin S
    ELSE Len(t) + 1

\* str.split(): the words between runs of white space.
RECURSIVE split(_)
split(t) ==
    LET s == lstrip(t)
    IN  IF s = <<>> THEN <<>>
        ELSE <<SubSeq(s, 1, Find(s, WhiteSpace) - 1)>>
             \o split(SubSeq(s, Find(s, WhiteSpace), Len(s)))

\* str.split(','): the parts between commas, empty ones included.
RECURSIVE split_commas(_)
split_commas(t) ==
    IF Find(t, {","}) > Len(t) THEN <<t>>
    ELSE <<SubSeq(t, 1, Find(t, {","}) - 1)>>
         \o split_commas(SubSeq(t, Find(t, {","}) + 1, Len(t)))

\* ord(letter) - ord('A') for a letter A-D.
letter_index(c) == CHOOSE k \in 0..(Len(Letters) - 1) : Letters[k + 1] = c

\* QuizManager._check_single_choice_answer
check_single_choice_answer(user_answer, correct_answer, options) ==
    LET user_normalized == lower(strip(user_answer))
    IN  IF /\ Len(user_normalized) = 1
           /\ upper_char(user_normalized[1]) \in LetterSet
           /\ letter_index(upper_char(user_normalized[1])) < Len(options)
        THEN lower(strip(options[letter_index(upper_char(user_normalized[1])) + 1]))
                = lower(strip(correct_answer))
        ELSE user_normalized = lower(strip(correct_answer))

\* The characters of 'abcd, '.
LetterChars == {"a", "b", "c", "d", ",", " "}

\* QuizManager._check_multiple_choice_answer
check_multiple_choice_answer(user_answer, correct_answers, options) ==
    LET user_normalized == lower(strip(user_answer))
        correct_set == {lower(strip(a)) : a \in Range(correct_answers)}
        IsLetter(c) == upper_char(c) \in LetterSet
        user_letters == SelectSeq(user_normalized, IsLetter)
        user_answers_set == {lower(strip(options[letter_index(upper_char(l)) + 1])) :
                                l \in {c \in Range(user_letters) :
                                         letter_index(upper_char(c)) < Len(options)}}
        user_parts == {lower(strip(p)) : p \in Range(split_commas(user_answer))}
    IN  IF \A k \in 1..Len(user_normalized) : user_normalized[k] \in LetterChars
        THEN user_answers_set = correct_set
        ELSE user_parts = correct_set

PartialMinLength == 10
MatchRatioTenths == 7

check_text_answer_Jaccard(user_answer, correct_answer) ==
    LET user_normalized == lower(strip(user_answer))
        correct_normalized == lower(strip(correct_answer))
        correct_words == Range(split(correct_normalized))
        user_words == Range(split(user_normalized))
    IN  \/ user_normalized = correct_normalized
        \/ /\ Len(correct_normalized) > PartialMinLength
           /\ Cardinality(correct_words) > 0
           /\ 10 * Cardinality(correct_words \cap user_words)
                >= MatchRatioTenths * Cardinality(correct_words \cup user_words)

\* QuizManager._check_text_answer.  match_ratio >= 0.7 is the quotient of two
\* small integers, correctly rounded, against the double nearest to 7/10:
\* true exactly when 10 * matched >= 7 * words.
check_text_answer(user_answer, correct_answer) ==
    LET user_normalized == lower(strip(user_answer))
        correct_normalized == lower(strip(correct_answer))
        correct_words == Range(split(correct_normalized))
        user_words == Range(split(user_normalized))
    IN  \/ user_normalized = correct_normalized
        \/ /\ Len(correct_normalized) > PartialMinLength
           /\ Cardinality(correct_words) > 0
           /\ 10 * Cardinality(correct_words \cap user_words)
                >= MatchRatioTenths * Cardinality(correct_words)

\* The verifier QuizManager.check_answer picks.
Verifier(question_type, options, correct_answers) ==
    IF question_type = "single_choice" /\ options # <<>> THEN "single"
    ELSE IF question_type = "multiple_choice" /\ correct_answers # <<>> THEN "multiple"
    ELSE "text"

\* is_correct as QuizManager.check_answer computes it.
Judge(question_type, user_answer, correct_answer, options, correct_answers) ==
    CASE Verifier(question_type, options, correct_answers) = "single" ->
            check_single_choice_answer(user_answer, correct_answer, options)
      [] Verifier(question_type, options, correct_answers) = "multiple" ->
            check_multiple_choice_answer(user_answer, correct_answers, options)
      [] OTHER -> check_text_answer(user_answer, correct_answer)

\* The questions put to the verifier: type, canonical answer, options and
\* correct answers as the parsers can produce them.
MultiFour ==
    [question_type |-> "multiple_choice", correct_answer |-> <<"p", ",", " ", "q", ",", " ", "r">>,
     options |-> <<<<"p">>, <<"Q", " ">>, <<"r">>, <<"s">>>>,
     correct_answers |-> <<<<"p">>, <<"q">>, <<"r">>>>]

MultiThree ==
    [question_type |-> "multiple_choice", correct_answer |-> <<"p", ",", " ", "q", ",", " ", "r">>,
     options |-> <<<<"p">>, <<"q">>, <<"r">>>>,
     correct_answers |-> <<<<"p">>, <<"q">>, <<"R">>>>]

MultiNoOptions ==
    [question_type |-> "multiple_choice", correct_answer |-> <<"p", ",", " ", "q">>,
     options |-> <<>>,
     correct_answers |-> <<<<"p">>, <<"q">>>>]

SingleThree ==
    [question_type |-> "single_choice", correct_answer |-> <<"q">>,
     options |-> <<<<"p">>, <<" ", "Q">>, <<"r">>>>,
     correct_answers |-> <<>>]

SingleLetterText ==
    [question_type |-> "single_choice", correct_answer |-> <<"d">>,
     options |-> <<<<"p">>, <<"q">>, <<"d">>>>,
     correct_answers |-> <<<<"d">>>>]

SingleNoOptions ==
    [question_type |-> "single_choice", correct_answer |-> <<"a", "a", " ", "b", "b", " ", "c", "c", " ", "d", "d", " ", "e", "e">>,
     options |-> <<>>,
     correct_answers |-> <<>>]

TextFive ==
    [question_type |-> "text", correct_answer |-> <<"a", "a", " ", "b", "b", " ", "c", "c", " ", "d", "d", " ", "e", "e">>,
     options |-> <<>>,
     correct_answers |-> <<>>]

TextTenChars ==
    [question_type |-> "text", correct_answer |-> <<"a", "a", " ", "b", "b", " ", "c", "c", " ", "d">>,
     options |-> <<>>,
     correct_answers |-> <<>>]

TextElevenChars ==
    [question_type |-> "text", correct_answer |-> <<" ", "A", "a", " ", "B", "B", " ", "c", "c", " ", "d", "d">>,
     options |-> <<>>,
     correct_answers |-> <<>>]

TextTenTokens ==
    [question_type |-> "text", correct_answer |-> <<"a", " ", "b", " ", "c", " ", "d", " ", "e", " ", "f", " ", "g", " ", "h", " ", "i", " ", "j">>,
     options |-> <<>>,
     correct_answers |-> <<>>]

VerifyQuestions ==
    {MultiFour, MultiThree, MultiNoOptions, SingleThree, SingleLetterText, SingleNoOptions, TextFive, TextTenChars, TextElevenChars, TextTenTokens}

\* The submissions.
VerifySubmissions ==
    {<<"A", ",", " ", "B", ",", " ", "C">>,
     <<"a", ",", "c", ",", "b">>,
     <<"p", ",", " ", "r", ",", " ", "q">>,
     <<"A", ",", " ", "B">>,
     <<"a", ",", "a", ",", "b", ",", "c">>,
     <<"a", ",", "\t", "b", ",", "c">>,
     <<"a", ",", "b", ",", "c", ",", "d">>,
     <<"a", "b", "c">>,
     <<"p", ",", "q", ",", "r", ",", "p">>,
     <<>>,
     <<"P", " ", ",", " ", "Q", " ", ",", " ", "R">>,
     <<"p", ",", "q">>,
     <<"B">>,
     <<"b">>,
     <<" ", "q">>,
     <<"Q">>,
     <<"d">>,
     <<"D">>,
     <<"c">>,
     <<"e">>,
     <<"b", "b">>,
     <<"a", "a", " ", "b", "b", " ", "c", "c", " ", "d", "d", " ", "e", "e">>,
     <<"a", "a", " ", "b", "b", " ", "c", "c", " ", "d", "d">>,
     <<"a", "a", " ", "b", "b", " ", "c", "c">>,
     <<"e", "e", " ", "d", "d", " ", "c", "c", " ", "b", "b", " ", "z", "z">>,
     <<"A", "A", " ", "B", "B", " ", "C", "C", " ", "D", "D">>,
     <<"a", "a", " ", "b", "b", " ", "c", "c", " ", "d">>,
     <<"a", "a", " ", " ", "b", "b", "\t", "c", "c", " ", "d", "d">>,
     <<"b", "b", " ", "a", "a">>,
     <<"a", " ", "b", " ", "c", " ", "d", " ", "e", " ", "f", " ", "g">>,
     <<"a", " ", "b", " ", "c", " ", "d", " ", "e", " ", "f">>,
     <<"j", " ", "i", " ", "h", " ", "g", " ", "f", " ", "e", " ", "d", " ", "z", " ", "z", " ", "z">>}

InitVerify ==
    /\ now = 0
    /\ questions = <<>>
    /\ seq = 0
    /\ srs_stats = <<>>
    /\ user_answers = EmptyBag
    /\ applied = 0
    /\ current_quiz_file = NoFile
    /\ current_questions = <<>>
    /\ session_stats = [questions_asked |-> 0, correct_answers |-> 0]
    /\ review_result = NoResult
    /\ ui = NoSession
    /\ parser = NoParse
    /\ verifier \in {[question_type |-> q.question_type, user_answer |-> u,
                      correct_answer |-> q.correct_answer, options |-> q.options,
                      correct_answers |-> q.correct_answers, outcome |-> "",
                      is_correct |-> FALSE] :
                        q \in VerifyQuestions, u \in VerifySubmissions}
    /\ calls = NoCalls

\* The verifying part of QuizManager.check_answer.
verify_answer ==
    /\ verifier.outcome = ""
    /\ verifier' = [verifier EXCEPT
            !.outcome = Verifier(verifier.question_type, verifier.options,
                                 verifier.correct_answers),
            !.is_correct = Judge(verifier.question_type, verifier.user_answer,
                                 verifier.correct_answer, verifier.options,
                                 verifier.correct_answers)]
    /\ UNCHANGED <<now, dbVars, qmVars, review_result, ui, parser, calls>>

NextVerify == verify_answer

SpecVerify == InitVerify /\ [][NextVerify]_vars

\* ---------------------------------------------------------------------
\* SpecDay: sessions while the clock stays within one day of the start
\* ---------------------------------------------------------------------
DayLoad ==
    \E f \in Files, raised \in BOOLEAN : \E done \in 0..Len(parse_file(f)) :
        /\ ui.pc = "menu"
        /\ seq + done <= MaxId
        /\ load_quiz(f, raised, parse_file(f), done)

DayStart == \E mode \in {"review", "random"} : start_quiz(mode)

DayNext ==
    /\ ui.shown <= MaxShown
    /\ next_question

DaySubmit ==
    \E sub \in {"a", "skip", "quit"}, is_correct \in BOOLEAN, fail \in Failures :
        /\ BagCardinality(user_answers) < MaxSessionAnswers
        /\ submit_answer(sub, is_correct, fail)

DayTick ==
    /\ now + 1 < TicksPerDay
    /\ Tick

NextDay == DayLoad \/ DayStart \/ DayNext \/ DaySubmit \/ DayTick

SpecDay == Init /\ [][NextDay]_vars

\* ---------------------------------------------------------------------
\* Properties
\* ---------------------------------------------------------------------

AnswerRow(id, is_correct) == [question_id |-> id, is_correct |-> is_correct]

\* This step is a record_answer for id with this verdict whose
\* _update_srs_stats committed.
Transition(id, is_correct) ==
    /\ id \in DOMAIN srs_stats
    /\ user_answers' = user_answers (+) SetToBag({AnswerRow(id, is_correct)})
    /\ applied' = applied + 1

\* The ReviewState that getDue and the statistics join to an identity.
ReviewStateOf(qs, srs, f, qid) ==
    LET id == get_question_db_id(qs, f, qid)
    IN  IF id \in DOMAIN srs
        THEN [ease_factor |-> srs[id].ease_factor,
              interval_days |-> srs[id].interval_days,
              repetitions |-> srs[id].repetitions,
              next_review |-> srs[id].next_review]
        ELSE [ease_factor |-> Null, interval_days |-> Null,
              repetitions |-> Null, next_review |-> Null]

Registered(qs, f, qid) == RowsOf(qs, f, qid) # {}

\* C1: a step that registers questions and records no answer leaves the
\* ease factor, interval, repetitions and next-due of every identity that
\* was already registered as they were.
C1_ReRegistrationKeepsReviewState ==
    [][\A f \in Files, qid \in QuestionIds :
          (Registered(questions, f, qid) /\ seq' # seq /\ user_answers' = user_answers)
          => ReviewStateOf(questions', srs_stats', f, qid)
             = ReviewStateOf(questions, srs_stats, f, qid)]_vars

\* C2: registering an identity that is already registered gives it the id
\* it had, so the id of a registered identity never changes.
C2_StableId ==
    [][\A f \in Files, qid \in QuestionIds :
          Registered(questions, f, qid)
          => get_question_db_id(questions', f, qid)
             = get_question_db_id(questions, f, qid)]_vars

\* C3: every persisted AnswerEvent has had its scheduler transition applied:
\* the number of rows of user_answers is the number of committed
\* _update_srs_stats updates.
C3_AnswerAndTransitionAtomic ==
    BagCardinality(user_answers) = applied

\* C4: every row of questions has a row of srs_stats.
C4_QuestionHasReviewState ==
    DOMAIN questions \subseteq DOMAIN srs_stats

\* C4 witness: an identity was registered, answered and registered again,
\* and another question is registered beside it.
C4_Witness ==
    /\ seq >= 2
    /\ Cardinality(DOMAIN questions) >= 1
    /\ \E id \in DOMAIN srs_stats : id \notin DOMAIN questions
    /\ \E id \in DOMAIN questions : id \in DOMAIN srs_stats /\ id > 1

\* C5: the ease factor of every ReviewState is at least 1.3.
C5_EaseAtLeastMin ==
    \A id \in DOMAIN srs_stats : srs_stats[id].ease_factor >= MinEase

\* C5 witness: a question answered incorrectly more often than the ease
\* factor can take the penalty without the floor.
C5_Witness ==
    \E id \in DOMAIN questions :
        /\ id \in DOMAIN srs_stats
        /\ srs_stats[id].ease_factor = MinEase
        /\ srs_stats[id].repetitions = 0
        /\ CopiesIn(AnswerRow(id, FALSE), user_answers) * EasePenalty
              > DefaultEase - MinEase

\* C6: a committed transition for an incorrect answer leaves repetitions 0
\* and interval 1.
C6_IncorrectResets ==
    [][\A id \in Ids :
          Transition(id, FALSE)
          => /\ srs_stats'[id].repetitions = 0
             /\ srs_stats'[id].interval_days = 1]_vars

\* C6 witness: an incorrect answer after two correct ones (repetitions 2,
\* interval 6 before it).
C6_Witness ==
    \E id \in DOMAIN questions :
        /\ id \in DOMAIN srs_stats
        /\ CopiesIn(AnswerRow(id, TRUE), user_answers) = 2
        /\ CopiesIn(AnswerRow(id, FALSE), user_answers) = 1
        /\ applied = 3
        /\ srs_stats[id].ease_factor = DefaultEase + 2 * EaseBonus(DefaultDifficulty) - EasePenalty
        /\ srs_stats[id].repetitions = 0
        /\ srs_stats[id].interval_days = 1

\* C7: a committed transition for a correct answer takes repetitions 0 to
\* repetitions 1 with interval 1, and repetitions 1 to repetitions 2 with
\* interval 6.
C7_FirstTwoIntervals ==
    [][\A id \in Ids :
          Transition(id, TRUE)
          => /\ srs_stats[id].repetitions = 0
                => (srs_stats'[id].interval_days = 1 /\ srs_stats'[id].repetitions = 1)
             /\ srs_stats[id].repetitions = 1
                => (srs_stats'[id].interval_days = 6 /\ srs_stats'[id].repetitions = 2)]_vars

\* C7 witness: an incorrect answer, then two correct ones.
C7_Witness ==
    \E id \in DOMAIN questions :
        /\ id \in DOMAIN srs_stats
        /\ CopiesIn(AnswerRow(id, TRUE), user_answers) = 2
        /\ CopiesIn(AnswerRow(id, FALSE), user_answers) = 1
        /\ applied = 3
        /\ srs_stats[id].ease_factor = DefaultEase - EasePenalty + 2 * EaseBonus(DefaultDifficulty)
        /\ srs_stats[id].repetitions = 2
        /\ srs_stats[id].interval_days = 6

\* C8: a committed transition for a correct answer at repetitions >= 2 sets
\* the interval to floor(interval * ease factor), the ease factor being the
\* one before the transition, and adds one to repetitions.
C8_LaterIntervals ==
    [][\A id \in Ids :
          (Transition(id, TRUE) /\ srs_stats[id].repetitions >= 2)
          => /\ srs_stats'[id].interval_days * 1000
                   <= srs_stats[id].interval_days * srs_stats[id].ease_factor
             /\ (srs_stats'[id].interval_days + 1) * 1000
                   > srs_stats[id].interval_days * srs_stats[id].ease_factor
             /\ srs_stats'[id].repetitions = srs_stats[id].repetitions + 1]_vars

\* C8 witness: four correct answers in a row, the fourth taking interval 15
\* at ease 2.665 to interval 39 (the ease after it, 2.72, would give 40).
C8_Witness ==
    \E id \in DOMAIN questions :
        /\ id \in DOMAIN srs_stats
        /\ srs_stats[id].repetitions = 4
        /\ srs_stats[id].interval_days = 39
        /\ srs_stats[id].ease_factor = 2720

\* C9: a committed transition, for a correct or an incorrect answer, sets
\* next-due to the answer time plus the new interval in days and
\* last-reviewed to the answer time.
C9_NextDueAndLastReviewed ==
    [][\A id \in Ids, is_correct \in BOOLEAN :
          Transition(id, is_correct)
          => /\ srs_stats'[id].next_review
                   = now + srs_stats'[id].interval_days * TicksPerDay
             /\ srs_stats'[id].last_review = now
             /\ now' = now]_vars

\* C9 witness: a second correct answer given after the clock has advanced.
C9_Witness ==
    \E id \in DOMAIN questions :
        /\ id \in DOMAIN srs_stats
        /\ srs_stats[id].last_review > 0
        /\ srs_stats[id].interval_days = SecondInterval
        /\ srs_stats[id].next_review = srs_stats[id].last_review + SecondInterval * TicksPerDay

\* C10 as claimed: right after a committed transition for an incorrect
\* answer the question is in the candidate set of getDue.
C10_DueImmediately ==
    [][\A id \in Ids :
          (Transition(id, FALSE) /\ id \in DOMAIN questions)
          => id \in DueSet(questions', srs_stats', NoFile, now')]_vars

\* The last committed transition of this row was for an incorrect answer.
LastAnswerIncorrect(id) ==
    /\ id \in DOMAIN srs_stats
    /\ srs_stats[id].last_review # Null
    /\ srs_stats[id].repetitions = 0

\* C10 amended: a question whose last answer was incorrect is in the
\* candidate set of getDue exactly from one day after that answer on.
C10_DueAfterOneDay ==
    \A id \in DOMAIN questions :
        LastAnswerIncorrect(id)
        => (id \in DueSet(questions, srs_stats, NoFile, now)
            <=> now >= srs_stats[id].last_review + TicksPerDay)

\* C10 witness: one day after an incorrect answer the question is due again.
C10_Witness ==
    \E id \in DOMAIN questions :
        /\ LastAnswerIncorrect(id)
        /\ CopiesIn(AnswerRow(id, FALSE), user_answers) >= 1
        /\ now = srs_stats[id].last_review + TicksPerDay
        /\ id \in DueSet(questions, srs_stats, NoFile, now)

NeverAnswered(id) ==
    /\ CopiesIn(AnswerRow(id, TRUE), user_answers) = 0
    /\ CopiesIn(AnswerRow(id, FALSE), user_answers) = 0

NeverReviewed(id) ==
    id \in DOMAIN srs_stats => srs_stats[id].last_review = Null

\* C11: whatever the filter and the limit, get_questions_for_review returns
\* only questions of the filtered source that are due (next-due <= now) or
\* were never reviewed, never a reviewed question whose next-due is after
\* now, and without a cutting limit it returns every registered question of
\* the source that was never answered.
C11_ReviewCandidates ==
    \A f \in Files \cup {NoFile} :
        /\ \A limit \in {1, DefaultLimit} :
              \A r \in ReviewResults(questions, srs_stats, f, limit, now) :
                 \A id \in Range(r) :
                    /\ id \in DOMAIN questions
                    /\ f # NoFile => questions[id].quiz_file = f
                    /\ NextReviewOf(srs_stats, id) <= now \/ NeverReviewed(id)
                    /\ ~(NextReviewOf(srs_stats, id) > now /\ ~NeverReviewed(id))
        /\ \A id \in DOMAIN questions :
              (NeverAnswered(id) /\ (f = NoFile \/ questions[id].quiz_file = f))
              => \A r \in ReviewResults(questions, srs_stats, f, DefaultLimit, now) :
                    id \in Range(r)

\* C11 witness: two sources; the question of one was answered and is not due,
\* the question of the other was registered at an earlier clock time, never
\* answered, and is what the query filtered to its source returns.
C11_Witness ==
    \E a, b \in DOMAIN questions :
        /\ questions[a].quiz_file # questions[b].quiz_file
        /\ ~NeverReviewed(a) /\ NextReviewOf(srs_stats, a) > now
        /\ NeverAnswered(b) /\ NextReviewOf(srs_stats, b) < now
        /\ ReviewResults(questions, srs_stats, questions[b].quiz_file, DefaultLimit, now) = {<<b>>}
        /\ ReviewResults(questions, srs_stats, NoFile, DefaultLimit, now) = {<<b>>}

\* C12: the rows returned are in ascending next-due order, rows with the
\* same next-due in descending difficulty order, and with a limit they are
\* the first rows of that order: no candidate left out sorts strictly
\* before a returned row, and rows are only left out when the limit is
\* reached.
C12_ReviewOrder ==
    LET r == review_result.rows
        due == DueSet(questions, srs_stats, review_result.quiz_file, now)
        Before(a, b) ==
            \/ srs_stats[a].next_review < srs_stats[b].next_review
            \/ /\ srs_stats[a].next_review = srs_stats[b].next_review
               /\ srs_stats[a].difficulty > srs_stats[b].difficulty
    IN  review_result.limit > 0
        => /\ \A i, j \in 1..Len(r) : i < j => ~Before(r[j], r[i])
           /\ Range(r) \subseteq due
           /\ \A a \in due \ Range(r) : \A k \in 1..Len(r) : ~Before(a, r[k])
           /\ \/ Len(r) = review_result.limit
              \/ Len(r) < review_result.limit /\ Range(r) = due

\* C12 witness: next-due T, T, T+1 with difficulties 1, 3, 2: the query
\* returned the difficulty-3 row, the difficulty-1 row, then the T+1 row,
\* and the query limited to two rows returns the two T-due ones.
C12_Witness ==
    \E a, b, c \in DOMAIN questions :
        /\ srs_stats[a].next_review = 0 /\ srs_stats[a].difficulty = 10
        /\ srs_stats[b].next_review = 0 /\ srs_stats[b].difficulty = 30
        /\ srs_stats[c].next_review = 1 /\ srs_stats[c].difficulty = 20
        /\ DOMAIN questions = {a, b, c}
        /\ review_result = [quiz_file |-> NoFile, limit |-> DefaultLimit, rows |-> <<b, a, c>>]
        /\ ReviewResults(questions, srs_stats, NoFile, 2, now) = {<<b, a>>}

\* The head of the session loop asks for a question: the step next_question
\* takes when the cap has not been reached.
AsksNext(mode) ==
    /\ ui.pc = "loop"
    /\ ui.mode = mode
    /\ ui.questions_count < max_questions
    /\ ui'.pc # "loop"

Candidates == DueSet(questions, srs_stats, current_quiz_file, now)

\* C13: in review mode get_next_question returns a candidate of the current
\* source that no other candidate precedes in next-due time, and returns
\* none exactly when the candidate set is empty.
C13_ReviewReturnsEarliest ==
    [][AsksNext("review") =>
         IF Candidates = {}
         THEN ui'.pc = "menu" /\ ui'.ended = "none"
         ELSE /\ ui'.pc = "prompt"
              /\ ui'.question_data \in Candidates
              /\ \A b \in Candidates :
                    NextReviewOf(srs_stats, ui'.question_data)
                        <= NextReviewOf(srs_stats, b)]_vars

\* A review session shows the earlier of two due questions of the quiz.
C13_Witness ==
    /\ ui.pc = "prompt"
    /\ ui.mode = "review"
    /\ \E b \in Candidates :
          NextReviewOf(srs_stats, ui.question_data) < NextReviewOf(srs_stats, b)

RegisteredOfCurrent ==
    {id \in DOMAIN questions : questions[id].quiz_file = current_quiz_file}

\* C14: in random mode get_next_question returns a question whenever a
\* question of the current source is registered, due or not.
C14_RandomFallsBack ==
    [][(AsksNext("random") /\ RegisteredOfCurrent # {}) => ui'.pc = "prompt"]_vars

\* C15: one session presents a question at most max_questions times,
\* whatever is submitted.
C15_AtMostMaxPresentations == ui.shown <= max_questions

\* Submissions that are a quit or a skip token in some letter case.
QuitInAnyCase == {"quit", "QUIT", "Koniec"}
SkipInAnyCase == {"skip", "SKIP", "POMI\\u0143"}

\* C16: a submission that is a skip or quit token in any letter case leaves
\* user_answers, srs_stats and the session counters as they were; a quit
\* token ends the session in the same step.
C16_ReservedRecordsNothing ==
    [][\A sub \in QuitInAnyCase \cup SkipInAnyCase :
         \A is_correct \in BOOLEAN, fail \in Failures :
            submit_answer(sub, is_correct, fail) =>
                /\ UNCHANGED <<user_answers, srs_stats, applied, session_stats>>
                /\ ui'.questions_count = ui.questions_count
                /\ sub \in QuitInAnyCase => ui'.pc = "menu" /\ ui'.ended = "quit"
                /\ sub \in SkipInAnyCase => ui'.pc = "loop"]_vars

\* A session that recorded an answer was then ended by a quit token.
C16_Witness ==
    /\ ui.pc = "menu"
    /\ ui.ended = "quit"
    /\ session_stats.questions_asked > 0

\* C17: in review mode, after a skip with at least two questions due, the
\* next question presented is not the skipped one.
C17_SkipAdvances ==
    [][(/\ AsksNext("review")
        /\ ui.skipped # 0
        /\ Cardinality(Candidates) >= 2
        /\ ui'.pc = "prompt") => ui'.question_data # ui.skipped]_vars

\* load_quiz returns False: parse_file raised or returned nothing, or
\* add_question raised before every parsed question was registered.
LoadFails(raised, parsed, done) ==
    raised \/ parsed = <<>> \/ done < Len(parsed)

\* C18: a load_quiz call that returns False leaves the selected quiz
\* (current_quiz_file, current_questions) and the store's questions and
\* srs_stats as they were before the call.
C18_FailedLoadLeavesState ==
    [][\A f \in Files, raised \in BOOLEAN :
         \A done \in 0..Len(parse_file(f)) :
            (load_quiz(f, raised, parse_file(f), done)
             /\ LoadFails(raised, parse_file(f), done)) =>
                UNCHANGED <<current_quiz_file, current_questions,
                            questions, srs_stats>>]_vars

\* C19: parsing a JSON source whose top-level value is a scalar, none of the
\* three accepted shapes, fails with an error instead of returning a
\* question sequence.
C19_ScalarIsFormatError ==
    (parser.outcome # "" /\ parser.data.kind \in {v.kind : v \in Scalars})
        => parser.outcome = "raised"

\* The rows that the answers to question id, applied one after the other in
\* some order to a freshly registered row, can leave: c correct and w
\* incorrect ones.
RECURSIVE SerialOutcomes(_, _, _)
SerialOutcomes(row, c, w) ==
    IF c = 0 /\ w = 0 THEN {row}
    ELSE (IF c > 0 THEN SerialOutcomes(UpdatedStats(row, TRUE, now), c - 1, w) ELSE {})
         \cup (IF w > 0 THEN SerialOutcomes(UpdatedStats(row, FALSE, now), c, w - 1) ELSE {})

AnswersTo(id, is_correct) ==
    CopiesIn([question_id |-> id, is_correct |-> is_correct], user_answers)

\* C20: once every record_answer call has returned, the row of a question
\* registered before its answers is what applying the transitions of its
\* answers one after the other, in some order, leaves (no lost update).
C20_NoLostUpdate ==
    Quiescent =>
        \A id \in DOMAIN srs_stats :
            applied = BagCardinality(user_answers) =>
                srs_stats[id] \in SerialOutcomes(DefaultStats(0), AnswersTo(id, TRUE),
                                                 AnswersTo(id, FALSE))

\* A file of one block: a question line, exactly three of the four labelled
\* option lines, and an answer line naming one of the options present.
ThreeOptionBlock(content) ==
    /\ Len(content) = 5
    /\ content[1].kind = "Q"
    /\ \A k \in 2..4 : content[k].kind \in LetterSet
    /\ content[5].kind = "Answer"
    /\ \A k \in 1..Len(content[5].letters) :
          \E j \in 2..4 : content[j].kind = content[5].letters[k]

\* C21: parsing a block with three of the four option lines and a valid
\* answer letter yields exactly one choice question with three options.
C21_ThreeOptionsOneQuestion ==
    (parser.outcome = "returned" /\ ThreeOptionBlock(parser.data)) =>
        /\ Len(parser.questions) = 1
        /\ parser.questions[1].question_type \in {"single_choice", "multiple_choice"}
        /\ Len(parser.questions[1].options) = 3

\* Normalization: surrounding white space trimmed, case folded.
Normalized(t) == lower(strip(t))

Judged == verifier.outcome # ""

\* The option texts, normalized, that the letters a-d of a text stand for;
\* letters with no option stand for nothing.
LettersToOptions(t, options) ==
    {Normalized(options[k]) :
        k \in {j \in 1..Len(options) : lower_char(Letters[j]) \in Range(t)}}

\* C22: the multi-choice verifier reads a submission made only of the
\* letters a-d, commas and white space as a set of letters mapped to their
\* option texts, any other submission as its comma-separated parts, and
\* judges it correct exactly when that set, normalized, is the normalized
\* set of correct answers.
C22_MultiChoiceVerdict ==
    (Judged /\ verifier.outcome = "multiple") =>
        LET submission == Normalized(verifier.user_answer)
            canonical == {Normalized(a) : a \in Range(verifier.correct_answers)}
            chosen ==
                IF Range(submission) \subseteq {"a", "b", "c", "d", ","} \cup WhiteSpace
                THEN LettersToOptions(submission, verifier.options)
                ELSE {Normalized(part) : part \in Range(split_commas(submission))}
        IN  verifier.is_correct <=> (chosen = canonical)

\* C23: a single-choice question is judged on the option a single letter
\* A-D stands for when that option exists, and otherwise by equality of the
\* normalized submission and the normalized canonical answer.
C23_SingleChoiceVerdict ==
    (Judged /\ verifier.question_type = "single_choice") =>
        LET submission == Normalized(verifier.user_answer)
            canonical == Normalized(verifier.correct_answer)
            mapped == LettersToOptions(submission, verifier.options)
        IN  verifier.is_correct <=>
                IF Len(submission) = 1 /\ mapped # {}
                THEN mapped = {canonical}
                ELSE submission = canonical

\* The tokens of the canonical answer and those of them in the submission.
CanonicalTokens == Range(split(Normalized(verifier.correct_answer)))
CoveredTokens == CanonicalTokens \cap Range(split(Normalized(verifier.user_answer)))

\* C24: a free-text question is judged correct exactly when the normalized
\* texts are equal, or the normalized canonical answer has more than 10
\* characters and at least 70 in 100 of its tokens are in the submission;
\* of 5 tokens, 4 covered is correct and 3 covered is not.
C24_FreeTextVerdict ==
    (Judged /\ verifier.question_type = "text") =>
        LET submission == Normalized(verifier.user_answer)
            canonical == Normalized(verifier.correct_answer)
            long == Len(canonical) > 10
        IN  /\ verifier.is_correct <=>
                \/ submission = canonical
                \/ /\ long
                   /\ 100 * Cardinality(CoveredTokens) >= 70 * Cardinality(CanonicalTokens)
            /\ (long /\ Cardinality(CanonicalTokens) = 5 /\ Cardinality(CoveredTokens) = 4)
                  => verifier.is_correct
            /\ (Cardinality(CanonicalTokens) = 5 /\ Cardinality(CoveredTokens) = 3)
                  => ~verifier.is_correct

\* A submission with four of the five tokens of the canonical answer, and a
\* word of its own, was judged correct.
C24_Witness ==
    /\ Judged
    /\ verifier.question_type = "text"
    /\ Normalized(verifier.user_answer) # Normalized(verifier.correct_answer)
    /\ Cardinality(CanonicalTokens) = 5
    /\ Cardinality(CoveredTokens) = 4
    /\ Cardinality(Range(split(Normalized(verifier.user_answer)))) = 5
    /\ verifier.is_correct

\* C25: get_statistics without a source filter reports as total_answers the
\* number of answers ever recorded.
C25_StatisticsCountEveryAnswer ==
    get_statistics(questions, user_answers, srs_stats, NoFile).total_answers
        = BagCardinality(user_answers)

\* The answers recorded for a question.
AnswersOf(id) == AnswersTo(id, TRUE) + AnswersTo(id, FALSE)

====
